---- MODULE Spec2Model ----
(***************************************************************************)
(* micro-tests.h: the descriptor catalog, the argument parser, the listing *)
(* mode, the sequential runner and the multithreaded runner.               *)
(*                                                                         *)
(* C strings are sequences of byte values (the terminating NUL is the      *)
(* position after the last element).  Catalog indices and the shared       *)
(* cursor micro_tests_current are 0-based as in the C code; slot i of the  *)
(* catalog is catalog[i + 1].  A test callback is deterministic and is     *)
(* represented by the value it returns.                                    *)
(***************************************************************************)
EXTENDS Integers, Sequences, FiniteSets, TLC

\* Bounds of the model.
MaxCount == 2          \* largest number of slots in the catalog region
MaxThreads == 2        \* largest value given to --threads
MaxStrLen == 3         \* longest string handed to the string comparison check

\* The null pointer, among byte strings: no string holds the byte -1.
NULL == << -1 >>
UNINIT == [uninit |-> TRUE]
NONE == "none"

\* uint32_t marker values: the sentinel 0xDeadBeaf and a padding value.
Sentinel == "0xDeadBeaf"
Padding == "0x00000000"
Markers == {Sentinel, Padding}

-----------------------------------------------------------------------------
\* String literals of the program, as byte sequences.
STR_help == <<45, 45, 104, 101, 108, 112>>
STR_h == <<45, 104>>
STR_list == <<45, 45, 108, 105, 115, 116>>
STR_suite == <<45, 45, 115, 117, 105, 116, 101>>
STR_test == <<45, 45, 116, 101, 115, 116>>
STR_no_banner == <<45, 45, 110, 111, 45, 98, 97, 110, 110, 101, 114>>
STR_debug == <<45, 45, 100, 101, 98, 117, 103>>
STR_quiet == <<45, 45, 113, 117, 105, 101, 116>>
STR_multithreaded == <<45, 45, 109, 117, 108, 116, 105, 116, 104, 114, 101, 97, 100, 101, 100>>
STR_threads == <<45, 45, 116, 104, 114, 101, 97, 100, 115>>

\* Suite and test names (short, to keep states small): the suite "bt" is a
\* strict prefix of the suite "bt2", and the filter "b" of both.
STR_b == <<98>>
STR_bt == <<98, 116>>
STR_bt2 == <<98, 116, 50>>
STR_a == <<97>>
STR_e == <<101>>
PROGNAME == <<46, 47, 116, 101, 115, 116>>
STR_bogus == <<45, 45, 98, 111, 103, 117, 115>>
STR_x == <<120>>
STR_minus1 == <<45, 49>>

-----------------------------------------------------------------------------
\* *s at position k (1-based): the byte, or the terminating NUL.
CharAt(s, k) == IF k <= Len(s) THEN s[k] ELSE 0

RECURSIVE StrcmpFrom(_, _, _)
StrcmpFrom(s1, s2, k) ==
  IF CharAt(s2, k) # 0 /\ CharAt(s1, k) # 0
  THEN IF CharAt(s1, k) # CharAt(s2, k)
       THEN (IF CharAt(s1, k) > CharAt(s2, k) THEN 1 ELSE -1)
       ELSE StrcmpFrom(s1, s2, k + 1)
  ELSE IF CharAt(s2, k) = 0 /\ CharAt(s1, k) = 0 THEN 0 ELSE 1

\* A comparison whose final test looks at *s2 only: it calls s1 equal to
\* every prefix of s1.
RECURSIVE StrcmpPrefixFrom(_, _, _)
StrcmpPrefixFrom(s1, s2, k) ==
  IF CharAt(s2, k) # 0 /\ CharAt(s1, k) # 0
  THEN IF CharAt(s1, k) # CharAt(s2, k)
       THEN (IF CharAt(s1, k) > CharAt(s2, k) THEN 1 ELSE -1)
       ELSE StrcmpPrefixFrom(s1, s2, k + 1)
  ELSE IF CharAt(s2, k) = 0 THEN 0 ELSE 1
StrcmpPrefix(s1, s2) == StrcmpPrefixFrom(s1, s2, 1)

_micro_tests_strcmp(s1, s2) == StrcmpFrom(s1, s2, 1)

\* atoi(3) on a byte string: optional sign, then the leading decimal digits.
RECURSIVE AtoiFrom(_, _, _)
AtoiFrom(s, k, acc) ==
  IF k <= Len(s) /\ s[k] \in 48..57
  THEN AtoiFrom(s, k + 1, acc * 10 + (s[k] - 48))
  ELSE acc

\* A conversion that skips the sign and does not apply it.
AtoiUnsigned(s) ==
  IF CharAt(s, 1) = 45 \/ CharAt(s, 1) = 43 THEN AtoiFrom(s, 2, 0)
  ELSE AtoiFrom(s, 1, 0)

atoi(s) ==
  IF CharAt(s, 1) = 45 THEN 0 - AtoiFrom(s, 2, 0)
  ELSE IF CharAt(s, 1) = 43 THEN AtoiFrom(s, 2, 0)
  ELSE AtoiFrom(s, 1, 0)

-----------------------------------------------------------------------------
\* The MicroTests settings record with its default values.
DEFAULT_THREAD_NUMBER == 4

DefaultMicroTests ==
  [ run_suite |-> NULL, run_test |-> NULL,
    run_multithreaded |-> FALSE, thread_number |-> DEFAULT_THREAD_NUMBER,
    show_list |-> FALSE, print_banner |-> TRUE, print_help |-> FALSE,
    debug |-> FALSE, quiet |-> FALSE ]

\* The argument loop of micro_tests_parse_args from argv[k - 1] on (argv is a
\* TLA+ sequence, so C's argv[i] is argv[i + 1] and argc is Len(argv)).
RECURSIVE ParseFrom(_, _, _)
ParseFrom(argv, k, m) ==
  IF k > Len(argv) THEN [rc |-> 0, m |-> m]
  ELSE LET a == argv[k] IN
    IF _micro_tests_strcmp(a, STR_help) = 0 \/ _micro_tests_strcmp(a, STR_h) = 0
    THEN ParseFrom(argv, k + 1, [m EXCEPT !.print_help = TRUE])
    ELSE IF _micro_tests_strcmp(a, STR_list) = 0
    THEN ParseFrom(argv, k + 1, [m EXCEPT !.show_list = TRUE])
    ELSE IF _micro_tests_strcmp(a, STR_suite) = 0
    THEN IF k + 1 > Len(argv) THEN [rc |-> -1, m |-> m]
         ELSE ParseFrom(argv, k + 2, [m EXCEPT !.run_suite = argv[k + 1]])
    ELSE IF _micro_tests_strcmp(a, STR_test) = 0
    THEN IF k + 1 > Len(argv) THEN [rc |-> -1, m |-> m]
         ELSE ParseFrom(argv, k + 2, [m EXCEPT !.run_test = argv[k + 1]])
    ELSE IF _micro_tests_strcmp(a, STR_no_banner) = 0
    THEN ParseFrom(argv, k + 1, [m EXCEPT !.print_banner = FALSE])
    ELSE IF _micro_tests_strcmp(a, STR_debug) = 0
    THEN ParseFrom(argv, k + 1, [m EXCEPT !.debug = TRUE])
    ELSE IF _micro_tests_strcmp(a, STR_quiet) = 0
    THEN ParseFrom(argv, k + 1, [m EXCEPT !.quiet = TRUE])
    ELSE IF _micro_tests_strcmp(a, STR_multithreaded) = 0
    THEN ParseFrom(argv, k + 1, [m EXCEPT !.run_multithreaded = TRUE])
    ELSE IF _micro_tests_strcmp(a, STR_threads) = 0
    THEN IF k + 1 > Len(argv) THEN [rc |-> -1, m |-> m]
         ELSE LET n == atoi(argv[k + 1])
                  m2 == [m EXCEPT !.thread_number = n]
              IN IF n <= 0 THEN [rc |-> -1, m |-> m2]
                 ELSE ParseFrom(argv, k + 2, m2)
    ELSE [rc |-> -1, m |-> m]

micro_tests_parse_args(argv) == ParseFrom(argv, 2, DefaultMicroTests)

-----------------------------------------------------------------------------
\* The catalog scan shared by the listing, the sequential runner and the
\* claim of the multithreaded runner.

\* size_t count = (__micro_tests_stop - __micro_tests_start) / sizeof(MicroTest)
Count(cat) == Len(cat)

\* current->marker == 0xDeadBeaf
MarkerNeverChecked(slot) == TRUE
IsValid(slot) == slot.marker = Sentinel

\* Neither filter sends the loop to `continue`.
PassesSuiteOnly(m, slot) ==
  ~(m.run_suite # NULL /\ _micro_tests_strcmp(m.run_suite, slot.test_suite) # 0)
PassesFilters(m, slot) ==
  /\ ~(m.run_suite # NULL /\ _micro_tests_strcmp(m.run_suite, slot.test_suite) # 0)
  /\ ~(m.run_test # NULL /\ _micro_tests_strcmp(m.run_test, slot.test_name) # 0)

\* The slot reaches the body of the loop (is printed, executed or claimed).
Selected(m, slot) == IsValid(slot) /\ PassesFilters(m, slot)

\* The same test in micro_tests_show_list: the slot is printed.
ListedIfValid(m, slot) == IsValid(slot)
ListSelected(m, slot) == IsValid(slot) /\ PassesFilters(m, slot)

-----------------------------------------------------------------------------
\* Inputs: the catalog region and the argument vector.

\* The test cases a catalog is made of: registered tests that pass (0), fail
\* (-1) or return a positive value, and slots of padding.
Test(suite, name, ret) ==
  [marker |-> Sentinel, test_suite |-> suite, test_name |-> name,
   function_pointer |-> ret]
Pad(suite, name, ret) ==
  [marker |-> Padding, test_suite |-> suite, test_name |-> name,
   function_pointer |-> ret]

Slots == { Test(STR_bt, STR_a, 0), Test(STR_bt, STR_e, -1),
           Test(STR_bt2, STR_e, 1), Test(STR_bt2, STR_a, -1),
           Pad(STR_bt2, STR_a, -1) }

Catalogs == UNION {[1..n -> Slots] : n \in 0..MaxCount}

DigitStr(n) == <<48 + n>>

SuiteArgs == {<<>>} \cup {<<STR_suite, s>> : s \in {STR_b, STR_bt2}}
TestArgs == {<<>>} \cup {<<STR_test, s>> : s \in {STR_e}}
ModeArgs == {<<>>, <<STR_list>>, <<STR_help>>}
              \cup {<<STR_multithreaded, STR_threads, DigitStr(n)>> : n \in 1..MaxThreads}

\* Every mode with every pair of filters, and every mode with --quiet.
GoodArgvs == {<<PROGNAME>> \o a \o b \o c : a \in ModeArgs, b \in SuiteArgs, c \in TestArgs}
               \cup {<<PROGNAME>> \o a \o <<STR_quiet>> : a \in ModeArgs}
BadArgvs == { <<PROGNAME, STR_suite>>, <<PROGNAME, STR_test>>,
              <<PROGNAME, STR_bogus>>, <<PROGNAME, STR_threads>>,
              <<PROGNAME, STR_threads, DigitStr(0)>>,
              <<PROGNAME, STR_threads, STR_x>>,
              <<PROGNAME, STR_threads, STR_minus1>> }
Argvs == GoodArgvs \cup BadArgvs

\* What an uninitialised long may hold when it is read.
Garbage == {0, 1}

Bytes == {97, 98}
Strings == UNION {[1..n -> Bytes] : n \in 0..MaxStrLen}

Workers == 1..MaxThreads

-----------------------------------------------------------------------------
VARIABLES
  catalog,              \* the .micro_tests region, a sequence of slots
  argv,                 \* the argument vector of micro_tests_run
  micro_tests,          \* the MicroTests settings, UNINIT before parsing
  parse_rc,             \* what micro_tests_parse_args returned, 0 before parsing
  pc,                   \* where micro_tests_run is
  i,                    \* the loop index of the loop pc names
  out,                  \* `out` of _micro_tests_run, `ret` of _micro_tests_run_multithreaded
  ret_tmp,              \* `ret_tmp` of the coordinator: <<>> while uninitialised, else <<v>>
  micro_tests_current,  \* the shared cursor
  mutex,                \* micro_tests_current_mutex: 0 when free, else its holder
  tpc,                  \* per worker: where _micro_tests_thread is
  tret,                 \* per worker: `ret` of _micro_tests_thread
  tcur,                 \* per worker: index of `micro_test`, -1 for NULL
  calls,                \* the callbacks invoked so far: [test, by] in order
  lines,                \* the lines printed so far, in order
  result,               \* the value micro_tests_run returned, NONE before
  s1, s2, cmp           \* the operands and the result of a string comparison

vars == <<catalog, argv, micro_tests, parse_rc, pc, i, out, ret_tmp, micro_tests_current,
          mutex, tpc, tret, tcur, calls, lines, result, s1, s2, cmp>>

inputs == <<catalog, argv>>
threads == <<micro_tests_current, mutex, tpc, tret, tcur>>
strs == <<s1, s2, cmp>>

Slot(k) == catalog[k + 1]

Init ==
  /\ catalog \in Catalogs
  /\ argv \in Argvs
  /\ micro_tests = UNINIT
  /\ parse_rc = 0
  /\ pc = "start"
  /\ i = 0
  /\ out = 0
  /\ ret_tmp = <<>>
  /\ micro_tests_current = 0
  /\ mutex = 0
  /\ tpc = [w \in Workers |-> "none"]
  /\ tret = [w \in Workers |-> 0]
  /\ tcur = [w \in Workers |-> -1]
  /\ calls = <<>>
  /\ lines = <<>>
  /\ result = NONE
  /\ s1 = <<>> /\ s2 = <<>> /\ cmp = NONE

-----------------------------------------------------------------------------
\* micro_tests_run up to the call of a runner or of the listing.  The banner
\* and the debug line are not part of `lines`.  pthread_mutex_init returns 0 or
\* a positive error number, so the `< 0` branch of the multithreaded runner is
\* never taken.

\* The status micro_tests_run returns when parsing fails.
PARSE_FAILURE_STATUS == 1

UseMultithreaded(m) == m.run_multithreaded /\ m.thread_number > 0

Start ==
  /\ pc = "start"
  /\ LET p == micro_tests_parse_args(argv) IN
       /\ micro_tests' = p.m
       /\ parse_rc' = p.rc
       /\ IF p.rc < 0
          THEN /\ pc' = "done" /\ result' = PARSE_FAILURE_STATUS
               /\ lines' = lines
          ELSE IF p.m.print_help
          THEN /\ pc' = "done" /\ result' = 0
               /\ lines' = Append(lines, [kind |-> "HELP"])
          ELSE /\ pc' = IF p.m.show_list THEN "list"
                        ELSE IF UseMultithreaded(p.m) THEN "create"
                        ELSE "seq"
               /\ result' = result
               /\ lines' = lines
  /\ UNCHANGED <<inputs, i, out, ret_tmp, threads, calls, strs>>

-----------------------------------------------------------------------------
\* micro_tests_show_list: one iteration of its loop, and its return.

ShowListStep ==
  /\ pc = "list"
  /\ i < Count(catalog)
  /\ lines' = IF ListSelected(micro_tests, Slot(i))
              THEN Append(lines, [kind |-> "LIST", test |-> i])
              ELSE lines
  /\ i' = i + 1
  /\ UNCHANGED <<inputs, micro_tests, parse_rc, pc, out, ret_tmp, threads, calls, result, strs>>

ShowListReturn ==
  /\ pc = "list"
  /\ i >= Count(catalog)
  /\ pc' = "done"
  /\ result' = 0
  /\ UNCHANGED <<inputs, micro_tests, parse_rc, i, out, ret_tmp, threads, calls, lines, strs>>

-----------------------------------------------------------------------------
\* _micro_tests_run: one iteration of its loop, and its return.

\* The status line of a test given the value `ret` the runner tests.
StatusLines(m, k, ret) ==
  IF ret < 0 THEN << [kind |-> "FAILED", test |-> k] >>
  ELSE IF ~m.quiet THEN << [kind |-> "OK", test |-> k] >>
  ELSE << >>

\* "Tests done: %d %s failed", -ret, (ret == -1) ? "test" : "tests"
SummaryLines(m, ret) ==
  IF ~m.quiet
  THEN << [kind |-> "SUMMARY", n |-> 0 - ret,
           word |-> IF ret = -1 THEN "test" ELSE "tests"] >>
  ELSE << >>

\* out += ret
KeepLast(acc, ret) == ret
Accumulate(acc, ret) == acc + ret

SeqStep ==
  /\ pc = "seq"
  /\ i < Count(catalog)
  /\ IF Selected(micro_tests, Slot(i))
     THEN LET ret == Slot(i).function_pointer IN
            /\ calls' = Append(calls, [test |-> i, by |-> 0])
            /\ lines' = lines \o StatusLines(micro_tests, i, ret)
            /\ out' = Accumulate(out, ret)
     ELSE UNCHANGED <<calls, lines, out>>
  /\ i' = i + 1
  /\ UNCHANGED <<inputs, micro_tests, parse_rc, pc, ret_tmp, threads, result, strs>>

\* return -out
SeqResult(acc) == 0 - acc

SeqReturn ==
  /\ pc = "seq"
  /\ i >= Count(catalog)
  /\ lines' = lines \o SummaryLines(micro_tests, out)
  /\ result' = SeqResult(out)
  /\ pc' = "done"
  /\ UNCHANGED <<inputs, micro_tests, parse_rc, i, out, ret_tmp, threads, calls, strs>>

-----------------------------------------------------------------------------
\* _micro_tests_run_multithreaded: the coordinator.

\* One iteration of the spawn loop.  pthread_create either starts the worker,
\* which then calls _micro_tests_get_next_test, or fails and is only reported.
Create ==
  /\ pc = "create"
  /\ i < micro_tests.thread_number
  /\ \E ok \in BOOLEAN :
       tpc' = [tpc EXCEPT ![i + 1] = IF ok THEN "lock" ELSE "failed"]
  /\ IF i + 1 < micro_tests.thread_number
     THEN /\ i' = i + 1 /\ pc' = pc
     ELSE /\ i' = 0 /\ pc' = "join"
  /\ UNCHANGED <<inputs, micro_tests, parse_rc, out, ret_tmp, micro_tests_current, mutex,
                 tret, tcur, calls, lines, result, strs>>

\* ret += (long)ret_tmp
JoinDropsResult(acc, v) == acc
JoinAccumulate(acc, v) == acc + v

\* One iteration of the wait loop on a worker that was started: pthread_join
\* returns once the worker has returned, and stores its return value.
Join ==
  /\ pc = "join"
  /\ i < micro_tests.thread_number
  /\ tpc[i + 1] = "done"
  /\ ret_tmp' = <<tret[i + 1]>>
  /\ out' = JoinAccumulate(out, tret[i + 1])
  /\ i' = i + 1
  /\ UNCHANGED <<inputs, micro_tests, parse_rc, pc, threads, calls, lines, result, strs>>

\* One iteration of the wait loop on a slot of thread_buff that pthread_create
\* did not fill: pthread_join on it is undefined.  Either it reports an error
\* and leaves ret_tmp as it was (uninitialised, or the previous worker's
\* value), which is then added, or the process dies.
JoinUnstarted ==
  /\ pc = "join"
  /\ i < micro_tests.thread_number
  /\ tpc[i + 1] = "failed"
  /\ \/ /\ \E v \in (IF ret_tmp = <<>> THEN Garbage ELSE {ret_tmp[1]}) :
             /\ ret_tmp' = <<v>>
             /\ out' = JoinAccumulate(out, v)
        /\ i' = i + 1
        /\ pc' = pc
     \/ /\ pc' = "crashed"
        /\ UNCHANGED <<i, out, ret_tmp>>
  /\ UNCHANGED <<inputs, micro_tests, parse_rc, threads, calls, lines, result, strs>>

\* return ret
MTResult(acc) == acc

MTReturn ==
  /\ pc = "join"
  /\ i >= micro_tests.thread_number
  /\ lines' = lines \o SummaryLines(micro_tests, out)
  /\ result' = MTResult(out)
  /\ pc' = "done"
  /\ UNCHANGED <<inputs, micro_tests, parse_rc, i, out, ret_tmp, threads, calls, strs>>

-----------------------------------------------------------------------------
\* _micro_tests_get_next_test and _micro_tests_thread: the workers.

\* The index the scan loop stops at from `from`, or -1 when it runs off the end.
RECURSIVE ScanFrom(_, _, _)
ScanFrom(cat, m, k) ==
  IF k >= Count(cat) THEN -1
  ELSE IF Selected(m, cat[k + 1]) THEN k
  ELSE ScanFrom(cat, m, k + 1)

\* micro_tests_current++
CursorUnmoved(cur, found) == cur
AdvanceCursor(cur, found) == cur + 1

\* pthread_mutex_unlock before either return: the holder of the mutex when
\* _micro_tests_get_next_test returns.
KeepLockWhenFound(w, found) == IF found >= 0 THEN w ELSE 0
MutexAfterScan(w, found) == 0

\* pthread_mutex_lock returns.
Lock(w) ==
  /\ tpc[w] = "lock"
  /\ mutex = 0
  /\ mutex' = w
  /\ tpc' = [tpc EXCEPT ![w] = "scan"]
  /\ UNCHANGED <<inputs, micro_tests, parse_rc, pc, i, out, ret_tmp, micro_tests_current,
                 tret, tcur, calls, lines, result, strs>>

\* The rest of _micro_tests_get_next_test, with the mutex held, up to the
\* test of the while loop in _micro_tests_thread.
GetNextTest(w) ==
  /\ tpc[w] = "scan"
  /\ mutex = w
  /\ LET found == ScanFrom(catalog, micro_tests, micro_tests_current) IN
       /\ micro_tests_current' =
            IF found >= 0 THEN AdvanceCursor(micro_tests_current, found)
            ELSE micro_tests_current
       /\ tcur' = [tcur EXCEPT ![w] = found]
       /\ tpc' = [tpc EXCEPT ![w] = IF found >= 0 THEN "run" ELSE "done"]
       /\ mutex' = MutexAfterScan(w, found)
  /\ UNCHANGED <<inputs, micro_tests, parse_rc, pc, i, out, ret_tmp, tret, calls, lines,
                 result, strs>>

\* The status line of the worker tests the running total.
OwnStatus(total, ret) == ret
ThreadStatus(total, ret) == total

\* micro_test = _micro_tests_get_next_test(micro_tests): whatever the test
\* returned, the worker goes on to claim the next one.
StopOnFailure(ret) == IF ret < 0 THEN "done" ELSE "lock"
AfterTest(ret) == "lock"

\* The body of the while loop of _micro_tests_thread.
RunTest(w) ==
  /\ tpc[w] = "run"
  /\ IF ~IsValid(Slot(tcur[w]))
     THEN /\ tret' = [tret EXCEPT ![w] = -1]
          /\ tpc' = [tpc EXCEPT ![w] = "done"]
          /\ UNCHANGED <<calls, lines>>
     ELSE LET ret == Slot(tcur[w]).function_pointer
              total == Accumulate(tret[w], ret)
          IN /\ calls' = Append(calls, [test |-> tcur[w], by |-> w])
             /\ tret' = [tret EXCEPT ![w] = total]
             /\ lines' = lines \o StatusLines(micro_tests, tcur[w],
                                              ThreadStatus(total, ret))
             /\ tpc' = [tpc EXCEPT ![w] = AfterTest(ret)]
  /\ UNCHANGED <<inputs, micro_tests, parse_rc, pc, i, out, ret_tmp, micro_tests_current,
                 mutex, tcur, result, strs>>

-----------------------------------------------------------------------------
Next ==
  \/ Start
  \/ ShowListStep
  \/ ShowListReturn
  \/ SeqStep
  \/ SeqReturn
  \/ Create
  \/ Join
  \/ JoinUnstarted
  \/ MTReturn
  \/ \E w \in Workers : Lock(w)
  \/ \E w \in Workers : GetNextTest(w)
  \/ \E w \in Workers : RunTest(w)

Spec == Init /\ [][Next]_vars

------------------------------------------------------------------------------
\* A process that calls micro_tests_run again with the same arguments after a
\* concurrent run returned.  The locals of the runner and of the workers are
\* new, pthread_mutex_init makes the mutex free again; micro_tests_current is
\* a static with an initialiser, so it keeps the value the previous call left.
\* `calls` and `lines` record the current call.
CallAgain ==
  /\ pc = "done"
  /\ parse_rc = 0
  /\ ~micro_tests.print_help
  /\ ~micro_tests.show_list
  /\ UseMultithreaded(micro_tests)
  /\ pc' = "create"
  /\ i' = 0
  /\ out' = 0
  /\ ret_tmp' = <<>>
  /\ mutex' = 0
  /\ tpc' = [w \in Workers |-> "none"]
  /\ tret' = [w \in Workers |-> 0]
  /\ tcur' = [w \in Workers |-> -1]
  /\ calls' = <<>>
  /\ lines' = <<>>
  /\ result' = NONE
  /\ UNCHANGED <<inputs, micro_tests, parse_rc, micro_tests_current, strs>>

NextTwoRuns == Next \/ CallAgain

SpecTwoRuns == Init /\ [][NextTwoRuns]_vars

\* The process and its threads keep being scheduled: a step that can be taken
\* is eventually taken.  Every step of Next changes the position of the
\* coordinator or of a worker.
position == <<pc, i, tpc>>

FairSpec == Spec /\ WF_position(Next)

------------------------------------------------------------------------------
\* A listing followed by a run of the same catalog with the same filters:
\* micro_tests_run is called with --list, and when it has returned it is
\* called again with the same arguments less --list.  `lines` keeps the
\* listing while the run adds its own lines.
WithoutFlag(av, flag) == SelectSeq(av, LAMBDA a : a # flag)

InitListing ==
  /\ Init
  /\ \E n \in DOMAIN argv : argv[n] = STR_list

RunWithoutList ==
  /\ pc = "done"
  /\ parse_rc = 0
  /\ ~micro_tests.print_help
  /\ micro_tests.show_list
  /\ argv' = WithoutFlag(argv, STR_list)
  /\ micro_tests' = UNINIT
  /\ pc' = "start"
  /\ i' = 0
  /\ out' = 0
  /\ result' = NONE
  /\ UNCHANGED <<catalog, parse_rc, ret_tmp, threads, calls, lines, strs>>

NextListThenRun ==
  \/ Start
  \/ ShowListStep
  \/ ShowListReturn
  \/ RunWithoutList
  \/ SeqStep
  \/ SeqReturn

SpecListThenRun == InitListing /\ [][NextListThenRun]_vars

-----------------------------------------------------------------------------
\* The value _micro_tests_run returns on a catalog, as a function.
RECURSIVE RunFrom(_, _, _, _)
RunFrom(cat, m, k, acc) ==
  IF k >= Count(cat) THEN SeqResult(acc)
  ELSE RunFrom(cat, m, k + 1,
               IF Selected(m, cat[k + 1])
               THEN Accumulate(acc, cat[k + 1].function_pointer)
               ELSE acc)

_micro_tests_run(cat, m) == RunFrom(cat, m, 0, 0)

-----------------------------------------------------------------------------
\* The string comparison on its own: two strings are drawn and compared.

InitStrcmp ==
  /\ s1 \in Strings
  /\ s2 \in Strings
  /\ cmp = NONE
  /\ pc = "strcmp"
  /\ catalog = <<>>
  /\ argv = <<PROGNAME>>
  /\ micro_tests = UNINIT
  /\ parse_rc = 0
  /\ i = 0
  /\ out = 0
  /\ ret_tmp = <<>>
  /\ micro_tests_current = 0
  /\ mutex = 0
  /\ tpc = [w \in Workers |-> "none"]
  /\ tret = [w \in Workers |-> 0]
  /\ tcur = [w \in Workers |-> -1]
  /\ calls = <<>>
  /\ lines = <<>>
  /\ result = NONE

Compare ==
  /\ pc = "strcmp"
  /\ cmp' = _micro_tests_strcmp(s1, s2)
  /\ pc' = "compared"
  /\ UNCHANGED <<inputs, micro_tests, parse_rc, i, out, ret_tmp, threads, calls, lines,
                 result, s1, s2>>

SpecStrcmp == InitStrcmp /\ [][Compare]_vars

-----------------------------------------------------------------------------
\* Vocabulary of the properties.

ParseOK == pc # "start" /\ parse_rc = 0
Finished == pc = "done"
HelpMode == ParseOK /\ micro_tests.print_help
ListMode == ParseOK /\ ~micro_tests.print_help /\ micro_tests.show_list
RunMode == ParseOK /\ ~micro_tests.print_help /\ ~micro_tests.show_list
SeqMode == RunMode /\ ~UseMultithreaded(micro_tests)
MTMode == RunMode /\ UseMultithreaded(micro_tests)

\* Every pthread_create of the run succeeded.
AllStarted == \A w \in 1..micro_tests.thread_number : tpc[w] # "failed"

Indices == 0..(Count(catalog) - 1)

\* Slot k is a valid descriptor whose names equal the filters that are set.
Matching(k) ==
  /\ Slot(k).marker = Sentinel
  /\ micro_tests.run_suite = NULL \/ micro_tests.run_suite = Slot(k).test_suite
  /\ micro_tests.run_test = NULL \/ micro_tests.run_test = Slot(k).test_name

\* The matching indices below n, in increasing order.
RECURSIVE MatchingBelow(_)
MatchingBelow(n) ==
  IF n <= 0 THEN <<>>
  ELSE IF Matching(n - 1) THEN Append(MatchingBelow(n - 1), n - 1)
  ELSE MatchingBelow(n - 1)

CalledTests == [n \in DOMAIN calls |-> calls[n].test]
Times(k) == Cardinality({n \in DOMAIN calls : calls[n].test = k})
ReturnOf(n) == Slot(calls[n].test).function_pointer

RECURSIVE SumReturns(_)
SumReturns(n) == IF n = 0 THEN 0 ELSE SumReturns(n - 1) + ReturnOf(n)

RECURSIVE SumFailures(_)
SumFailures(n) ==
  IF n = 0 THEN 0
  ELSE SumFailures(n - 1) + (IF ReturnOf(n) < 0 THEN 0 - ReturnOf(n) ELSE 0)

FailedCalls == Cardinality({n \in DOMAIN calls : ReturnOf(n) < 0})

\* The sum of the returns of the tests claimed from cursor value cur on, when
\* claims are served one after the other.
RECURSIVE ClaimedSum(_, _)
ClaimedSum(cur, acc) ==
  LET found == ScanFrom(catalog, micro_tests, cur) IN
    IF found < 0 THEN acc
    ELSE ClaimedSum(cur + 1, acc + Slot(found).function_pointer)

IsStrictPrefix(a, b) == Len(a) < Len(b) /\ SubSeq(b, 1, Len(a)) = a

-----------------------------------------------------------------------------
\* C1: in a multithreaded run in which every worker was started, when the run
\* has returned every valid descriptor matching the filters has been invoked
\* exactly once, and no other slot has been invoked.
C1_ExactlyOnce ==
  (Finished /\ MTMode /\ AllStarted) =>
     \A k \in Indices : Times(k) = (IF Matching(k) THEN 1 ELSE 0)

\* C2: a multithreaded run in which every worker was started returns the
\* value _micro_tests_run returns on the same catalog with the same filters.
C2_SameAggregate ==
  (Finished /\ MTMode /\ AllStarted) =>
     result = _micro_tests_run(catalog, micro_tests)

\* C3: when every callback returns 0 or -1, a run in either mode (with every
\* worker started) returns the number of callbacks that reported failure.
C3_ReturnsFailureCount ==
  (/\ Finished /\ RunMode
   /\ MTMode => AllStarted
   /\ \A k \in Indices : Slot(k).function_pointer \in {0, -1})
  => result = FailedCalls

\* C4: the sequential runner has invoked, when its loop is at index i, exactly
\* the matching valid descriptors below i, once each, in increasing index
\* order; on return these are all the matching descriptors of the catalog.
C4_SequentialOrder ==
  (SeqMode /\ pc \in {"seq", "done"}) =>
     /\ CalledTests = MatchingBelow(i)
     /\ Finished => i = Count(catalog)

C4_Witness ==
  /\ SeqMode /\ Finished
  /\ Len(calls) = 2
  /\ micro_tests.run_test # NULL

\* C5: _micro_tests_strcmp returns 0 exactly when the two strings have the same
\* length and the same bytes; a strict prefix never compares equal.
C5_ExactMatch ==
  (pc = "compared") => ((cmp = 0) <=> (s1 = s2))

C5_Witness ==
  /\ pc = "compared"
  /\ IsStrictPrefix(s1, s2) /\ Len(s1) > 0
  /\ cmp # 0

\* C6: no callback invoked and no line listed or reported belongs to a slot
\* whose marker is not the sentinel, in any mode.
C6_InvalidSlotUntouched ==
  /\ \A n \in DOMAIN calls : Slot(calls[n].test).marker = Sentinel
  /\ \A n \in DOMAIN lines :
       lines[n].kind \in {"LIST", "OK", "FAILED"}
         => Slot(lines[n].test).marker = Sentinel

C6_Witness ==
  /\ Finished /\ MTMode /\ AllStarted
  /\ micro_tests.run_suite = STR_bt2
  /\ \E k \in Indices : Slot(k).marker # Sentinel
  /\ Len(calls) > 0

\* C7: the value a multithreaded run returns, every worker started, is a
\* function of the catalog and the filters alone: the sum of the returns of
\* the tests claimed one after the other from cursor 0, whichever workers
\* claimed them and in whatever order they ran.
C7_DeterministicAggregate ==
  (Finished /\ MTMode /\ AllStarted) => result = ClaimedSum(0, 0)

C7_Witness ==
  /\ Finished /\ MTMode /\ AllStarted
  /\ \E n, m \in DOMAIN calls : calls[n].by # calls[m].by
  /\ result # 0

\* C8: a failing test does not end the run: when a run in either mode (with
\* every worker started) has returned, every matching descriptor has been
\* executed, those after a failing one too, and the return of every call made,
\* the failing ones too, has been added to the total the runner returns.
C8_FailureDoesNotAbort ==
  (Finished /\ RunMode /\ (MTMode => AllStarted)) =>
     /\ \A k \in Indices : Matching(k) => Times(k) >= 1
     /\ out = SumReturns(Len(calls))
     /\ result = (IF MTMode THEN out ELSE 0 - out)

C8_Witness ==
  /\ Finished /\ MTMode /\ AllStarted
  /\ \E n, m \in DOMAIN calls :
       n < m /\ ReturnOf(n) < 0 /\ calls[n].by = calls[m].by /\ calls[n].test # calls[m].test

\* C9: the sequential runner returns the sum of the magnitudes of the negative
\* returns only; zero and positive returns leave it unchanged.
C9_PositiveDoesNotCancel ==
  (Finished /\ SeqMode) => result = SumFailures(Len(calls))

\* C10: in help mode and in listing mode no callback is ever invoked and the
\* status returned is 0; help prints the help text only, and the listing has
\* printed, when its loop is at index i, one line for each matching valid
\* descriptor below i and nothing else.
C10_ListAndHelp ==
  /\ (HelpMode \/ ListMode) =>
        /\ calls = <<>>
        /\ Finished => result = 0
  /\ HelpMode => lines = << [kind |-> "HELP"] >>
  /\ ListMode =>
        /\ lines = [n \in DOMAIN MatchingBelow(i) |->
                      [kind |-> "LIST", test |-> MatchingBelow(i)[n]]]
        /\ Finished => i = Count(catalog)

C10_Witness ==
  /\ ListMode /\ Finished
  /\ Len(lines) >= 1
  /\ Len(lines) < Count(catalog)

\* C11: when the command line has a flag without its argument, an unknown
\* flag, or a thread count that is no positive number, parsing fails,
\* micro_tests_run returns at once with a non-zero status and no callback is
\* ever invoked; and whenever parsing fails that is so.
C11_ParseFailure ==
  /\ (pc # "start" /\ argv \in BadArgvs) => parse_rc < 0
  /\ (pc # "start" /\ parse_rc < 0) =>
        /\ Finished
        /\ result # 0
        /\ calls = <<>>

C11_Witness ==
  /\ Finished
  /\ argv = <<PROGNAME, STR_threads, STR_x>>
  /\ result = PARSE_FAILURE_STATUS
  /\ \E k \in Indices : Slot(k).marker = Sentinel

\* C12: no run whose arguments parse returns the status of a configuration
\* error (here for the sequential runner with callbacks returning 0 or -1).
C12_DistinguishedStatus ==
  (/\ Finished /\ SeqMode
   /\ \A k \in Indices : Slot(k).function_pointer \in {0, -1})
  => result # PARSE_FAILURE_STATUS

\* The sum of the values returned by the workers 1..n that were started.
RECURSIVE StartedSum(_)
StartedSum(n) ==
  IF n = 0 THEN 0
  ELSE StartedSum(n - 1) + (IF tpc[n] = "failed" THEN 0 ELSE tret[n])

\* C13: when the creation of a worker fails the concurrent run still comes
\* to its end, the workers that started execute every matching descriptor,
\* and the value returned is, up to its sign, the sum of the totals of the
\* workers that started: a worker that never started adds nothing.
C13_UnstartedWorkerAddsNothing ==
  /\ pc # "crashed"
  /\ (Finished /\ MTMode) =>
        /\ (\E w \in 1..micro_tests.thread_number : tpc[w] # "failed")
              => \A k \in Indices : Matching(k) => Times(k) >= 1
        /\ result \in { StartedSum(micro_tests.thread_number),
                        0 - StartedSum(micro_tests.thread_number) }

\* C14: every concurrent run starts with the shared cursor at 0, so every
\* call of the concurrent runner in a process, also one after another call
\* returned, executes every matching descriptor.
C14_CursorResetEachRun ==
  /\ (pc = "create" /\ i = 0) => micro_tests_current = 0
  /\ (Finished /\ MTMode /\ AllStarted) =>
        \A k \in Indices : Matching(k) => Times(k) >= 1

\* C15: when the sequential runner has returned, the last line it emitted is
\* the summary, which reports the number of failed tests, equal to the value
\* returned, with the word "test" exactly when that number is 1.
C15_SummaryLine ==
  (Finished /\ SeqMode) =>
     /\ Len(lines) > 0
     /\ lines[Len(lines)] =
          [kind |-> "SUMMARY", n |-> result,
           word |-> IF result = 1 THEN "test" ELSE "tests"]
     /\ result = FailedCalls

\* Worker w returns from _micro_tests_get_next_test with a descriptor.
Claims(w) == tpc[w] = "scan" /\ tpc'[w] = "run"

\* Descriptor k has been handed to a worker (which ran it or is about to).
Claimed(k) ==
  Times(k) > 0 \/ \E w \in Workers : tpc[w] = "run" /\ tcur[w] = k

\* C16: every call of _micro_tests_get_next_test that returns the descriptor
\* at index i leaves micro_tests_current greater than i, also when slots
\* were skipped before i.
C16_CursorPastClaim ==
  [][\A w \in Workers : Claims(w) => micro_tests_current' > tcur'[w]]_vars

\* C17: during a concurrent run micro_tests_current never decreases, and no
\* index is claimed that was claimed before.
C17_MonotoneClaimOnce ==
  [][/\ micro_tests_current' >= micro_tests_current
     /\ \A w \in Workers : Claims(w) => ~Claimed(tcur'[w])]_vars

\* C18: the mutex covers the find-and-claim step only: a worker holds it
\* exactly while it is inside _micro_tests_get_next_test, so at most one
\* worker at a time reads or writes micro_tests_current, every return of
\* _micro_tests_get_next_test releases it, and no worker holds it while it
\* runs a callback or after it ended; a worker waiting to claim finds the
\* mutex free whenever no worker is claiming.
C18_LockCoversClaimOnly ==
  /\ \A w \in Workers : (mutex = w) <=> (tpc[w] = "scan")
  /\ Cardinality({w \in Workers : tpc[w] = "scan"}) <= 1
  /\ \A w \in Workers : tpc[w] \in {"run", "done"} => mutex # w
  /\ (\A w \in Workers : tpc[w] # "scan") => mutex = 0

C18_Witness ==
  \E w, v \in Workers :
     /\ tpc[w] = "run"
     /\ tpc[v] = "scan"
     /\ mutex = v
     /\ Times(tcur[w]) = 0

\* C19: a concurrent run (the callbacks of the model all return) eventually
\* returns, and when it has returned every worker has ended, having found
\* no match and released the mutex.
C19_RunCompletes ==
  /\ (pc = "create") ~> Finished
  /\ [](Finished /\ MTMode =>
          /\ mutex = 0
          /\ \A w \in 1..micro_tests.thread_number :
                tpc[w] \in {"done", "failed"})

\* The number of status lines of the given kind emitted for descriptor k.
StatusCount(kind, k) ==
  Cardinality({n \in DOMAIN lines : lines[n].kind = kind /\ lines[n].test = k})

\* C20: in both runners every execution of a test emits a status line that
\* tells that test's own outcome: FAILED exactly when its callback returned
\* a negative value (and OK otherwise, unless quiet), whatever the tests
\* executed before it returned.
C20_StatusIsOwnOutcome ==
  RunMode =>
    \A k \in Indices :
       /\ StatusCount("FAILED", k) =
            IF Slot(k).function_pointer < 0 THEN Times(k) ELSE 0
       /\ StatusCount("OK", k) =
            IF Slot(k).function_pointer >= 0 /\ ~micro_tests.quiet
            THEN Times(k) ELSE 0

\* The descriptors the listing printed, in the order of its lines.
ListedTests ==
  LET listing == SelectSeq(lines, LAMBDA l : l.kind = "LIST")
  IN [n \in DOMAIN listing |-> listing[n].test]

\* C21: for every catalog and pair of filters, the descriptors the listing
\* prints are exactly the descriptors the sequential run with the same
\* filters executes, in the same order; while the run is at index i it has
\* executed the listed descriptors below i.
C21_ListEqualsRun ==
  (SeqMode /\ pc \in {"seq", "done"}) =>
     /\ CalledTests = SelectSeq(ListedTests, LAMBDA k : k < i)
     /\ Finished => CalledTests = ListedTests

C21_Witness ==
  /\ SeqMode /\ Finished
  /\ micro_tests.run_suite # NULL
  /\ Len(ListedTests) = 1
  /\ Count(catalog) = 2
  /\ CalledTests = ListedTests
  /\ \E k \in Indices : Slot(k).marker = Sentinel /\ ~Matching(k)

====
